---- MODULE Spec2Model ----
(***************************************************************************)
(* Verification model of the LC_Fetch bulk collection scripts:             *)
(*   - user_school_leetcode_fetcher.py : process_csv / fetch_user, a       *)
(*     ThreadPoolExecutor fan-out over user slugs (SpecPool), and the      *)
(*     retrying session its requests go through (SpecRetry);               *)
(*   - leetcode_scraper.py : LeetCodeContestScraper.scrape_pages, the      *)
(*     sequential page loop (SpecPages);                                   *)
(*   - user_detail_leetcode_fetcher.py : process_csv_file, the sequential  *)
(*     row-augmenting fetcher (SpecBulk).                                  *)
(* Every specification runs one of the programs; the variables of the      *)
(* other programs keep their initial values.                               *)
(***************************************************************************)
EXTENDS Integers, Sequences, FiniteSets, TLC

VARIABLES
  \* ---- process_csv (user_school_leetcode_fetcher.py) ----
  input_rows,    \* the user_slug cell of every row of the input CSV
  faults,        \* TRUE iff the network/server of this run can fail a request
  user_slugs,    \* the list built at line 74
  fstate,        \* state of the future submitted for the i-th slug
  fresult,       \* value the i-th future holds once FINISHED
  yielded,       \* futures as_completed has already handed to the loop
  results,       \* the results list of line 79
  pc,            \* position of the coordinating thread
  output,        \* rows written to the output CSV (<<>>: no file written)
  reported,      \* user count printed by line 100 (0: line 102 ran instead)
  \* ---- session.post through the Retry adapter ----
  rq_state,      \* position of the request inside fetch_user / session.post
  rq_slug,       \* slug the request is for
  rq_total,      \* Retry.total still available to the request
  rq_hist,       \* responses/errors of the attempts made so far
  rq_slept,      \* backoff sleeps taken between the attempts
  rq_result,     \* what fetch_user returned
  \* ---- scrape_pages (leetcode_scraper.py) ----
  min_page, max_page,
  page,          \* loop variable of line 97
  sp_pc,         \* position inside scrape_pages
  in_flight,     \* number of driver.get calls in progress
  requested,     \* pages handed to fetch_page_data, in call order
  payloads,      \* what the browser showed for each requested page
  all_rankings,  \* accumulator of line 91
  df,            \* rows of the DataFrame scrape_pages returned
  \* ---- process_csv_file (user_detail_leetcode_fetcher.py) ----
  rows,          \* rows read from the input CSV (line 148)
  idx,           \* number of rows the loop of line 157 has taken
  b_pc,          \* position inside process_csv_file
  b_resps,       \* responses to the requests made so far, one per fetched row
  all_user_data, \* accumulator of line 155
  row_of,        \* for each accumulated row, the index of its input row
  raised_at,     \* index of the row whose processing raised (0: none)
  out_file,      \* rows written to the output CSV (<<>>: no file written)
  out_header     \* header line of the output CSV: its fieldnames in order

poolVars  == <<input_rows, faults, user_slugs, fstate, fresult, yielded,
               results, pc, output, reported>>
retryVars == <<rq_state, rq_slug, rq_total, rq_hist, rq_slept, rq_result>>
pageVars  == <<min_page, max_page, page, sp_pc, in_flight, requested,
               payloads, all_rankings, df>>
bulkVars  == <<rows, idx, b_pc, b_resps, all_user_data, row_of, raised_at,
               out_file, out_header>>
vars == <<poolVars, retryVars, pageVars, bulkVars>>

\* value of a row-valued variable that holds no row yet
NoRow == [none |-> TRUE]

(***************************************************************************)
(* Bounds of the model.                                                    *)
(***************************************************************************)
MaxRows == 3       \* longest input CSV explored with a failing network
ExtraKeys == 1     \* keys submitted beyond the pool size in the big run
MaxPage == 3       \* largest page number
MaxUsers == 2      \* most users one ranking page carries
MaxBulkRows == 3   \* longest input CSV of the sequential fetcher

(***************************************************************************)
(* Generic helpers.                                                        *)
(***************************************************************************)
RECURSIVE SeqsUpTo(_, _)
SeqsUpTo(S, n) ==
  IF n = 0 THEN {<<>>}
  ELSE LET shorter == SeqsUpTo(S, n - 1)
       IN  shorter \cup {Append(s, x) : s \in {t \in shorter : Len(t) = n - 1}, x \in S}

Range(s) == {s[i] : i \in DOMAIN s}

\* number of indexes of s whose element satisfies s[i] = x
Count(s, x) == Cardinality({i \in DOMAIN s : s[i] = x})

(***************************************************************************)
(* The server and the input cells.                                         *)
(***************************************************************************)
Slugs == {"a", "b"}
Registered == {"a"}                    \* slugs the server has a user for
Cells == {"a", "b", "", " a"}          \* user_slug cells of an input CSV

\* str.strip() on the cells of the model
strip(c) == IF c = " a" THEN "a" ELSE c

ServerUser(slug) ==
  IF slug = "a" THEN [username |-> "Alice", school |-> "MIT"]
                ELSE [username |-> "Bob", school |-> ""]

\* What session.post hands back to fetch_user once the adapter has finished:
\*   "found"        200, data.matchedUser is the user
\*   "matched_null" 200, data.matchedUser is null
\*   "bad_payload"  200, body is not JSON or not of the expected shape
\*   "http_error"   a 4xx/5xx response (raise_for_status raises)
\*   "raised"       session.post raised (connection error, timeout, ...)
FaultOutcomes == {"bad_payload", "http_error", "raised"}
ProperOutcome(slug) == IF slug \in Registered THEN "found" ELSE "matched_null"
PostOutcomes(slug, canFail) ==
  {ProperOutcome(slug)} \cup (IF canFail THEN FaultOutcomes ELSE {})

(***************************************************************************)
(* user_school_leetcode_fetcher.py                                         *)
(***************************************************************************)
max_workers == 8

EmptyRow(user_slug) == [user_slug |-> user_slug, username |-> "", school |-> ""]

\* variant: a failure row holds the key and nothing else
fetch_user_key_only(user_slug, outcome) ==
  IF outcome = "found"
  THEN [user_slug |-> user_slug,
        username  |-> ServerUser(user_slug).username,
        school    |-> ServerUser(user_slug).school]
  ELSE [user_slug |-> user_slug]

\* variant: the failure rows forget which slug they were fetched for
fetch_user_anonymous(user_slug, outcome) ==
  IF outcome = "found"
  THEN [user_slug |-> user_slug,
        username  |-> ServerUser(user_slug).username,
        school    |-> ServerUser(user_slug).school]
  ELSE EmptyRow("")

fetch_user(user_slug, outcome) ==
  IF outcome = "found"
  THEN [user_slug |-> user_slug,
        username  |-> ServerUser(user_slug).username,
        school    |-> ServerUser(user_slug).school]
  ELSE EmptyRow(user_slug)

\* [r.get("user_slug", "").strip() for r in reader if r.get("user_slug")]
RECURSIVE read_user_slugs(_)
read_user_slugs(cells) ==
  IF cells = <<>> THEN <<>>
  ELSE IF Head(cells) # ""
       THEN <<strip(Head(cells))>> \o read_user_slugs(Tail(cells))
       ELSE read_user_slugs(Tail(cells))

Running == {i \in DOMAIN fstate : fstate[i] = "RUNNING"}

\* variant: a thread per submitted task, no pool limit
worker_can_take_unbounded(i) ==
  /\ fstate[i] = "PENDING"
  /\ \A j \in 1..(i - 1) : fstate[j] # "PENDING"

\* a pool thread takes the oldest queued work item when it is free
worker_can_take(i) ==
  /\ fstate[i] = "PENDING"
  /\ \A j \in 1..(i - 1) : fstate[j] # "PENDING"
  /\ Cardinality(Running) < max_workers

\* variant: the loop stops at the first moment no finished future is waiting
as_completed_first_lull ==
  \A i \in DOMAIN user_slugs : fstate[i] = "FINISHED" => i \in yielded

\* as_completed ends once every future has been handed out
as_completed_exhausted == yielded = DOMAIN user_slugs

\* variant: the workers fill one dict that every future refers to
set_result_shared(fr, i, row) == [j \in DOMAIN fr |-> row]

\* the value fetch_user returned becomes the result of its own future
set_result(fr, i, row) == [fr EXCEPT ![i] = row]

\* variant: the newest row is put in front
collect_front(acc, data) == <<data>> \o acc

\* results.append(data), line 88
collect(acc, data) == Append(acc, data)

\* variant: only the rows of users that were found are counted
saved_count_found(rs) == Cardinality({k \in DOMAIN rs : rs[k].username # ""})

\* len(results) in the message of line 100
saved_count(rs) == Len(rs)

Submit ==
  /\ pc = "read"
  /\ user_slugs' = read_user_slugs(input_rows)
  /\ fstate' = [i \in DOMAIN user_slugs' |-> "PENDING"]
  /\ fresult' = [i \in DOMAIN user_slugs' |-> NoRow]
  /\ pc' = "collect"
  /\ UNCHANGED <<input_rows, faults, yielded, results, output, reported>>
  /\ UNCHANGED <<retryVars, pageVars, bulkVars>>

WorkerStart(i) ==
  /\ pc = "collect"
  /\ i \in DOMAIN user_slugs
  /\ worker_can_take(i)
  /\ fstate' = [fstate EXCEPT ![i] = "RUNNING"]
  /\ UNCHANGED <<input_rows, faults, user_slugs, fresult, yielded, results, pc, output, reported>>
  /\ UNCHANGED <<retryVars, pageVars, bulkVars>>

WorkerFinish(i) ==
  /\ pc = "collect"
  /\ i \in DOMAIN user_slugs
  /\ fstate[i] = "RUNNING"
  /\ \E outcome \in PostOutcomes(user_slugs[i], faults) :
       fresult' = set_result(fresult, i, fetch_user(user_slugs[i], outcome))
  /\ fstate' = [fstate EXCEPT ![i] = "FINISHED"]
  /\ UNCHANGED <<input_rows, faults, user_slugs, yielded, results, pc, output, reported>>
  /\ UNCHANGED <<retryVars, pageVars, bulkVars>>

\* one iteration of the loop of lines 85-89
AsCompleted(i) ==
  /\ pc = "collect"
  /\ i \in DOMAIN user_slugs
  /\ fstate[i] = "FINISHED"
  /\ i \notin yielded
  /\ yielded' = yielded \cup {i}
  /\ results' = collect(results, fresult[i])
  /\ UNCHANGED <<input_rows, faults, user_slugs, fstate, fresult, pc, output, reported>>
  /\ UNCHANGED <<retryVars, pageVars, bulkVars>>

\* the loop ends and the with-block is left
PoolExit ==
  /\ pc = "collect"
  /\ as_completed_exhausted
  /\ pc' = "write"
  /\ UNCHANGED <<input_rows, faults, user_slugs, fstate, fresult, yielded, results, output, reported>>
  /\ UNCHANGED <<retryVars, pageVars, bulkVars>>

\* lines 93-102
WriteOutput ==
  /\ pc = "write"
  /\ output' = IF results # <<>> THEN results ELSE <<>>
  /\ reported' = IF results # <<>> THEN saved_count(results) ELSE 0
  /\ pc' = "end"
  /\ UNCHANGED <<input_rows, faults, user_slugs, fstate, fresult, yielded, results>>
  /\ UNCHANGED <<retryVars, pageVars, bulkVars>>

(***************************************************************************)
(* session.post of fetch_user through the adapter create_session mounts:   *)
(* Retry(total=3, backoff_factor=1, status_forcelist=[429,500,502,503,504])*)
(* with every other Retry parameter at its default.                        *)
(***************************************************************************)
RetryTotal == 3
backoff_factor == 1
status_forcelist == {429, 500, 502, 503, 504}
\* Retry.DEFAULT_ALLOWED_METHODS, the default of allowed_methods
allowed_methods == {"HEAD", "GET", "PUT", "DELETE", "OPTIONS", "TRACE"}
Method == "POST"

Statuses == {200, 400, 404, 429, 500, 502, 503, 504}
Bodies == {"found", "null", "bad"}

HttpResponse(status, body) == [kind |-> "http", status |-> status, body |-> body]
TransportError(kind) == [kind |-> kind, status |-> 0, body |-> ""]

\* what one attempt of the request can come back with
AttemptResults ==
  {HttpResponse(200, b) : b \in Bodies}
    \cup {HttpResponse(st, "") : st \in Statuses \ {200}}
    \cup {TransportError("connect_error"), TransportError("read_error")}

is_method_retryable(method) == method \in allowed_methods

\* variant: every error status is retried, whatever the method
is_retry_any_error(method, status) == status >= 400

\* Retry.is_retry for a response without a Retry-After header
is_retry(method, status) ==
  /\ is_method_retryable(method)
  /\ status \in status_forcelist

is_exhausted(total) == total < 0

RECURSIVE Pow2(_)
Pow2(n) == IF n = 0 THEN 1 ELSE 2 * Pow2(n - 1)

\* variant: the wait grows by backoff_factor with every failed attempt
get_backoff_time_linear(n) == backoff_factor * n

\* Retry.get_backoff_time after n consecutive failed attempts
get_backoff_time(n) ==
  IF n <= 1 THEN 0 ELSE backoff_factor * Pow2(n - 1)

\* does urlopen go through Retry.increment for this attempt result?
\* (a connect error always; a read error only for a retryable method,
\* otherwise it is re-raised at once; a response only if is_retry)
increments(resp) ==
  \/ resp.kind = "connect_error"
  \/ resp.kind = "read_error" /\ is_method_retryable(Method)
  \/ resp.kind = "http" /\ is_retry(Method, resp.status)

\* lines 46-57 applied to the response session.post returned
classify(resp) ==
  IF resp.status >= 400 THEN "http_error"
  ELSE IF resp.body = "found" THEN "found"
  ELSE IF resp.body = "null" THEN "matched_null"
  ELSE "bad_payload"

Post(slug) ==
  /\ rq_state = "idle"
  /\ rq_slug' = slug
  /\ rq_total' = RetryTotal
  /\ rq_state' = "sending"
  /\ UNCHANGED <<rq_hist, rq_slept, rq_result>>
  /\ UNCHANGED <<poolVars, pageVars, bulkVars>>

\* one pass through HTTPConnectionPool.urlopen
Attempt(resp) ==
  /\ rq_state = "sending"
  /\ rq_hist' = Append(rq_hist, resp)
  /\ IF increments(resp)
     THEN /\ rq_total' = rq_total - 1
          /\ rq_state' = IF is_exhausted(rq_total') THEN "raised" ELSE "backoff"
     ELSE /\ rq_total' = rq_total
          /\ rq_state' = IF resp.kind = "http" THEN "responded" ELSE "raised"
  /\ UNCHANGED <<rq_slug, rq_slept, rq_result>>
  /\ UNCHANGED <<poolVars, pageVars, bulkVars>>

\* Retry.sleep before the next attempt
Backoff ==
  /\ rq_state = "backoff"
  /\ rq_slept' = Append(rq_slept, get_backoff_time(Len(rq_hist)))
  /\ rq_state' = "sending"
  /\ UNCHANGED <<rq_slug, rq_total, rq_hist, rq_result>>
  /\ UNCHANGED <<poolVars, pageVars, bulkVars>>

\* the rest of fetch_user once session.post has returned or raised
FetchUserReturn ==
  /\ rq_state \in {"responded", "raised"}
  /\ rq_result' = fetch_user(rq_slug,
                     IF rq_state = "raised" THEN "raised"
                     ELSE classify(rq_hist[Len(rq_hist)]))
  /\ rq_state' = "returned"
  /\ UNCHANGED <<rq_slug, rq_total, rq_hist, rq_slept>>
  /\ UNCHANGED <<poolVars, pageVars, bulkVars>>

(***************************************************************************)
(* leetcode_scraper.py                                                     *)
(***************************************************************************)
\* What the browser shows for a page:
\*   "driver_error"   driver.get / find_element raised
\*   "not_json"       the body is not JSON
\*   "empty_json"     JSON that is falsy in Python ({}, [], null, 0)
\*   "no_total_rank"  a non-empty JSON object without the key total_rank
\*   "users"          {"total_rank": [n user objects]}
\*   "bad_total_rank" JSON whose total_rank is not a list of objects
\*                    ({"total_rank": null}, {"total_rank": [null]}), or a
\*                    bare number
PagePayloads ==
  {[kind |-> k, n |-> 0] :
     k \in {"driver_error", "not_json", "empty_json", "no_total_rank", "bad_total_rank"}}
    \cup {[kind |-> "users", n |-> n] : n \in 0..MaxUsers}

NoData == [kind |-> "none", n |-> 0]

\* the ranking list numbers the users page after page
RankOn(p, k) == (p - 1) * MaxUsers + k
PageOfRank(r) == ((r - 1) \div MaxUsers) + 1

\* lines 43-56: the parsed JSON, or None (NoData) on any exception
fetch_page_data(payload) ==
  IF payload.kind \in {"driver_error", "not_json"} THEN NoData ELSE payload

\* Python truth value of what fetch_page_data returned
truthy(data) == data.kind \notin {"none", "empty_json"}

\* lines 58-87; raised: an exception leaves parse_ranking_data
parse_ranking_data(data, p) ==
  IF ~truthy(data) \/ data.kind = "no_total_rank"
  THEN [raised |-> FALSE, rankings |-> <<>>]
  ELSE IF data.kind = "bad_total_rank"
  THEN [raised |-> TRUE, rankings |-> <<>>]
  ELSE [raised |-> FALSE,
        rankings |-> [k \in 1..data.n |-> [rank |-> RankOn(p, k)]]]

\* variant: new records are put in front of the accumulated ones
extend_front(acc, rankings) == rankings \o acc

\* all_rankings.extend(rankings)
extend(acc, rankings) == acc \o rankings

\* variant: the first page is fetched before the range is tested
in_range_first_always(p, lo, hi) == p = lo \/ p <= hi

\* does range(min_page, max_page + 1) still hold the page p?
in_range(p, lo, hi) == lo <= p /\ p <= hi

\* line 97 takes the next page and line 100 starts its fetch
FetchBegin ==
  /\ sp_pc = "loop"
  /\ in_range(page, min_page, max_page)
  /\ requested' = Append(requested, page)
  /\ in_flight' = in_flight + 1
  /\ sp_pc' = "fetching"
  /\ UNCHANGED <<min_page, max_page, page, payloads, all_rankings, df>>
  /\ UNCHANGED <<poolVars, retryVars, bulkVars>>

\* the fetch returns and lines 102-114 run
FetchEnd(payload) ==
  /\ sp_pc = "fetching"
  /\ in_flight' = in_flight - 1
  /\ payloads' = Append(payloads, payload)
  /\ LET data == fetch_page_data(payload)
         parsed == IF truthy(data) THEN parse_ranking_data(data, page)
                   ELSE [raised |-> FALSE, rankings |-> <<>>]
     IN  IF parsed.raised
         THEN /\ sp_pc' = "raised"
              /\ UNCHANGED <<page, all_rankings>>
         ELSE /\ all_rankings' = IF parsed.rankings # <<>>
                                 THEN extend(all_rankings, parsed.rankings)
                                 ELSE all_rankings
              /\ page' = page + 1
              /\ sp_pc' = "loop"
  /\ UNCHANGED <<min_page, max_page, requested, df>>
  /\ UNCHANGED <<poolVars, retryVars, bulkVars>>

\* the range is exhausted: lines 116-124
ScrapeReturn ==
  /\ sp_pc = "loop"
  /\ ~in_range(page, min_page, max_page)
  /\ df' = all_rankings
  /\ sp_pc' = "returned"
  /\ UNCHANGED <<min_page, max_page, page, in_flight, requested, payloads, all_rankings>>
  /\ UNCHANGED <<poolVars, retryVars, bulkVars>>

(***************************************************************************)
(* user_detail_leetcode_fetcher.py                                         *)
(***************************************************************************)
\* Outcome of the one requests.post of fetch_leetcode_user_data:
\*   "found"             200, data.matchedUser is the user
\*   "matched_null"      200, data.matchedUser is null
\*   "request_exception" raise_for_status or the transport raised a
\*                       requests.exceptions.RequestException
\*   "data_null"         200 with body {"data": null}
\*   "profile_null"      200, matchedUser present but its profile is null
BulkResponses ==
  {"found", "matched_null", "request_exception", "data_null", "profile_null"}

\* the columns of the input CSV and the row read at position i
InputRow(i, cell) == [user_slug |-> cell, username |-> "old", rank |-> i]

\* lines 64-82; raised: an exception other than RequestException leaves
\* the function (None.get at line 74)
fetch_leetcode_user_data(user_slug, resp) ==
  IF resp = "data_null" THEN [raised |-> TRUE, user |-> "None"]
  ELSE IF resp \in {"matched_null", "request_exception"}
  THEN [raised |-> FALSE, user |-> "None"]
  ELSE [raised |-> FALSE, user |-> resp]

\* lines 84-134 on the fields the model keeps; raised: profile.get on None
parse_user_data(user_slug, user) ==
  IF user = "profile_null" THEN [raised |-> TRUE, parsed |-> <<>>]
  ELSE [raised |-> FALSE,
        parsed |-> [username       |-> ServerUser(user_slug).username,
                    school_college |-> ServerUser(user_slug).school,
                    total_badges   |-> "0"]]

\* variant: {**parsed_data, **row}, a column of the input wins
merge_keep_input(row, parsed) ==
  [k \in DOMAIN row \cup DOMAIN parsed |->
     IF k \in DOMAIN row THEN row[k] ELSE parsed[k]]

\* {**row, **parsed_data}
merge(row, parsed) ==
  [k \in DOMAIN row \cup DOMAIN parsed |->
     IF k \in DOMAIN parsed THEN parsed[k] ELSE row[k]]

\* variant: a row without user info is not kept
keep_unfetched_dropped(acc, row) == acc

\* line 177: the row is kept as it was read
keep_unfetched(acc, row) == Append(acc, row)

\* the field names of the model in the order a dict of the program gets them:
\* the columns of the input CSV first (csv.DictReader), then the keys
\* parse_user_data adds
InsertionOrder ==
  <<"user_slug", "username", "rank", "school_college", "total_badges">>

\* the field names of the model in ascending str order
AlphaOrder ==
  <<"rank", "school_college", "total_badges", "user_slug", "username">>

\* the elements of the sequence s that are in the set S, in the order of s
RECURSIVE Pick(_, _)
Pick(s, S) ==
  IF s = <<>> THEN <<>>
  ELSE IF Head(s) \in S THEN <<Head(s)>> \o Pick(Tail(s), S)
       ELSE Pick(Tail(s), S)

\* variant: the names are listed in the order the dicts hold them
sorted_as_inserted(S) == Pick(InsertionOrder, S)

\* sorted(list(all_fieldnames)), line 189
sorted(S) == Pick(AlphaOrder, S)

\* lines 185-187
all_fieldnames(data) == UNION {DOMAIN data[k] : k \in DOMAIN data}

\* csv.DictWriter.writerows: a column a row lacks is written empty
writerows(fieldnames, data) ==
  [k \in DOMAIN data |->
     [f \in fieldnames |-> IF f \in DOMAIN data[k] THEN data[k][f] ELSE ""]]

\* lines 157-162: the loop takes the next row; an empty slug is skipped
BulkTake ==
  /\ b_pc = "loop"
  /\ idx < Len(rows)
  /\ idx' = idx + 1
  /\ b_pc' = IF strip(rows[idx'].user_slug) = "" THEN "loop" ELSE "fetching"
  /\ UNCHANGED <<rows, b_resps, all_user_data, row_of, raised_at, out_file, out_header>>
  /\ UNCHANGED <<poolVars, retryVars, pageVars>>

\* lines 167-178: the request of the current row comes back
BulkFetched(resp) ==
  /\ b_pc = "fetching"
  /\ b_resps' = Append(b_resps, resp)
  /\ LET row == rows[idx]
         user_slug == strip(row.user_slug)
         fetched == fetch_leetcode_user_data(user_slug, resp)
         decoded == IF fetched.raised \/ fetched.user = "None"
                    THEN [raised |-> fetched.raised, parsed |-> <<>>]
                    ELSE parse_user_data(user_slug, fetched.user)
     IN  IF decoded.raised
         THEN /\ b_pc' = "aborted"    \* caught only at line 205
              /\ raised_at' = idx
              /\ UNCHANGED <<all_user_data, row_of>>
         ELSE /\ all_user_data' =
                   IF fetched.user # "None"
                   THEN Append(all_user_data, merge(row, decoded.parsed))
                   ELSE keep_unfetched(all_user_data, row)
              /\ row_of' = Append(row_of, idx)
              /\ b_pc' = "loop"
              /\ UNCHANGED raised_at
  /\ UNCHANGED <<rows, idx, out_file, out_header>>
  /\ UNCHANGED <<poolVars, retryVars, pageVars>>

\* lines 183-201
BulkWrite ==
  /\ b_pc = "loop"
  /\ idx = Len(rows)
  /\ out_header' = IF all_user_data # <<>>
                   THEN sorted(all_fieldnames(all_user_data))
                   ELSE <<>>
  /\ out_file' = IF all_user_data # <<>>
                 THEN writerows(all_fieldnames(all_user_data), all_user_data)
                 ELSE <<>>
  /\ b_pc' = "done"
  /\ UNCHANGED <<rows, idx, b_resps, all_user_data, row_of, raised_at>>
  /\ UNCHANGED <<poolVars, retryVars, pageVars>>

(***************************************************************************)
(* Initial values of the programs that a specification does not run.       *)
(***************************************************************************)
PoolIdle ==
  /\ input_rows = <<>> /\ faults = FALSE /\ user_slugs = <<>>
  /\ fstate = <<>> /\ fresult = <<>> /\ yielded = {} /\ results = <<>>
  /\ pc = "off" /\ output = <<>> /\ reported = 0

RetryIdle ==
  /\ rq_state = "off" /\ rq_slug = "" /\ rq_total = 0
  /\ rq_hist = <<>> /\ rq_slept = <<>> /\ rq_result = NoRow

PagesIdle ==
  /\ min_page = 0 /\ max_page = 0 /\ page = 0 /\ sp_pc = "off"
  /\ in_flight = 0 /\ requested = <<>> /\ payloads = <<>>
  /\ all_rankings = <<>> /\ df = <<>>

BulkIdle ==
  /\ rows = <<>> /\ idx = 0 /\ b_pc = "off" /\ b_resps = <<>>
  /\ all_user_data = <<>> /\ row_of = <<>> /\ raised_at = 0 /\ out_file = <<>>
  /\ out_header = <<>>

(***************************************************************************)
(* SpecPool: one run of process_csv.  Either a short input over a network  *)
(* that can fail, or more keys than the pool has threads over a network    *)
(* that answers every request.                                             *)
(***************************************************************************)
BigInput == [i \in 1..(max_workers + ExtraKeys) |-> "a"]

InitPool ==
  /\ \/ /\ input_rows \in SeqsUpTo(Cells, MaxRows)
        /\ faults = TRUE
     \/ /\ input_rows = BigInput
        /\ faults = FALSE
  /\ user_slugs = <<>> /\ fstate = <<>> /\ fresult = <<>>
  /\ yielded = {} /\ results = <<>> /\ pc = "read" /\ output = <<>>
  /\ reported = 0
  /\ RetryIdle /\ PagesIdle /\ BulkIdle

NextPool ==
  \/ Submit
  \/ \E i \in 1..(max_workers + ExtraKeys) : WorkerStart(i)
  \/ \E i \in 1..(max_workers + ExtraKeys) : WorkerFinish(i)
  \/ \E i \in 1..(max_workers + ExtraKeys) : AsCompleted(i)
  \/ PoolExit
  \/ WriteOutput

SpecPool == InitPool /\ [][NextPool]_vars

\* the threads of the pool and the coordinating thread all keep running
SpecPoolFair == SpecPool /\ WF_vars(NextPool)

(***************************************************************************)
(* SpecRetry: one call of fetch_user followed attempt by attempt.          *)
(***************************************************************************)
InitRetry ==
  /\ rq_state = "idle" /\ rq_slug = "" /\ rq_total = 0
  /\ rq_hist = <<>> /\ rq_slept = <<>> /\ rq_result = NoRow
  /\ PoolIdle /\ PagesIdle /\ BulkIdle

NextRetry ==
  \/ \E slug \in Slugs : Post(slug)
  \/ \E resp \in AttemptResults : Attempt(resp)
  \/ Backoff
  \/ FetchUserReturn

SpecRetry == InitRetry /\ [][NextRetry]_vars

(***************************************************************************)
(* SpecPages: one call of scrape_pages(min_page, max_page).                *)
(***************************************************************************)
InitPages ==
  /\ min_page \in 1..MaxPage /\ max_page \in 1..MaxPage
  /\ page = min_page /\ sp_pc = "loop" /\ in_flight = 0
  /\ requested = <<>> /\ payloads = <<>> /\ all_rankings = <<>> /\ df = <<>>
  /\ PoolIdle /\ RetryIdle /\ BulkIdle

NextPages ==
  \/ FetchBegin
  \/ \E payload \in PagePayloads : FetchEnd(payload)
  \/ ScrapeReturn

SpecPages == InitPages /\ [][NextPages]_vars

(***************************************************************************)
(* SpecBulk: one call of process_csv_file.                                 *)
(***************************************************************************)
InitBulk ==
  /\ \E cells \in SeqsUpTo(Cells, MaxBulkRows) :
       rows = [i \in DOMAIN cells |-> InputRow(i, cells[i])]
  /\ idx = 0 /\ b_pc = "loop" /\ b_resps = <<>>
  /\ all_user_data = <<>> /\ row_of = <<>> /\ raised_at = 0 /\ out_file = <<>>
  /\ out_header = <<>>
  /\ PoolIdle /\ RetryIdle /\ PagesIdle

NextBulk ==
  \/ BulkTake
  \/ \E resp \in BulkResponses : BulkFetched(resp)
  \/ BulkWrite

SpecBulk == InitBulk /\ [][NextBulk]_vars

(***************************************************************************)
(* Properties of process_csv (SpecPool, SpecPoolFair).                     *)
(***************************************************************************)
Collected == pc \in {"write", "end"}

SlugCount(rs, slug) == Cardinality({k \in DOMAIN rs : rs[k].user_slug = slug})

\* C1: the results list holds exactly one result per future the loop has
\* taken, each result carries the slug its future was submitted for, and once
\* the loop is over the results hold one result per dispatched key, counted
\* per occurrence: no key is dropped and none is recorded twice.
C1_OneResultPerKey ==
  /\ \A i \in DOMAIN user_slugs :
       fstate[i] = "FINISHED" => fresult[i].user_slug = user_slugs[i]
  /\ \A r \in Range(results) \cup {fresult[i] : i \in yielded} :
       Count(results, r) = Cardinality({i \in yielded : fresult[i] = r})
  /\ Collected =>
       /\ Len(results) = Len(user_slugs)
       /\ \A slug \in Range(user_slugs) \cup {r.user_slug : r \in Range(results)} :
            SlugCount(results, slug) = Count(user_slugs, slug)

\* a finished run with a duplicated key of which one fetch succeeded and one failed
C1_Witness ==
  /\ pc = "end"
  /\ Count(user_slugs, "a") >= 2
  /\ "b" \in Range(user_slugs)
  /\ EmptyRow("a") \in Range(results)
  /\ fetch_user("a", "found") \in Range(results)

AllResolved ==
  \A i \in DOMAIN user_slugs : fstate[i] = "FINISHED" /\ i \in yielded

\* C2: with the pool threads and the coordinator scheduled fairly the fetch
\* phase ends, and whenever the coordinator is at or past the write of the
\* output no future is pending or running: every key has resolved.
C2_Completion ==
  /\ <>(pc = "end")
  /\ [](Collected => AllResolved)

\* the coordinator is about to write after resolving more keys than the pool has threads
C2_Witness ==
  /\ pc = "write"
  /\ Len(user_slugs) > max_workers
  /\ AllResolved

\* C10: the number of fetches in flight never exceeds max_workers (8).
C10_BoundedParallelism == Cardinality(Running) <= max_workers

\* the pool is full while a further key waits in the queue
C10_Witness ==
  /\ Cardinality(Running) = max_workers
  /\ \E i \in DOMAIN user_slugs : fstate[i] = "PENDING"

(***************************************************************************)
(* Properties of the retrying request (SpecRetry).                         *)
(***************************************************************************)
\* attempts a request is entitled to: the first one and Retry.total retries
max_attempts == RetryTotal + 1

\* failures the retry policy names as retryable
Retryable(resp) ==
  \/ resp.kind \in {"connect_error", "read_error"}
  \/ resp.kind = "http" /\ resp.status \in status_forcelist

\* a Not-Found answer or a failure the policy does not retry
NonRetryable(resp) ==
  /\ resp.kind = "http"
  /\ \/ resp.status = 200 /\ resp.body \in {"null", "bad"}
     \/ resp.status >= 400 /\ resp.status \notin status_forcelist

Resolved == rq_state \in {"responded", "raised", "returned"}

\* C8: a fetch whose every attempt failed with a retryable error has been
\* attempted exactly max_attempts times when it resolves, and it resolves to
\* the failure row.
C8_RetryBound ==
  (Resolved /\ \A k \in DOMAIN rq_hist : Retryable(rq_hist[k])) =>
     /\ Len(rq_hist) = max_attempts
     /\ rq_state = "returned" => rq_result = EmptyRow(rq_slug)

\* C9: a Not-Found response or a non-retryable failure ends the request: it
\* is the last attempt, the request has resolved although retries remain
\* unused, and a request whose first response is of this kind was attempted
\* exactly once and yields the empty row.
C9_NoRetryOnFinal ==
  \A k \in DOMAIN rq_hist :
    NonRetryable(rq_hist[k]) =>
      /\ k = Len(rq_hist)
      /\ rq_state \in {"responded", "returned"}
      /\ rq_total = RetryTotal - (k - 1)
      /\ k = 1 => Len(rq_hist) = 1 /\ rq_total = RetryTotal
      /\ rq_state = "returned" => rq_result = EmptyRow(rq_slug)

\* a 404 on the first attempt has resolved the fetch with all retries unused
C9_Witness ==
  /\ rq_state = "returned"
  /\ rq_hist = <<HttpResponse(404, "")>>
  /\ rq_total = RetryTotal
  /\ rq_result = EmptyRow(rq_slug)

(***************************************************************************)
(* Properties of scrape_pages (SpecPages).                                 *)
(***************************************************************************)
RECURSIVE Ascending(_, _)
\* the pages lo, lo+1, ..., hi
Ascending(lo, hi) == IF lo > hi THEN <<>> ELSE <<lo>> \o Ascending(lo + 1, hi)

\* the records the server put on the k-th requested page
ServedRecords(k) ==
  IF payloads[k].kind = "users"
  THEN [j \in 1..payloads[k].n |-> [rank |-> RankOn(requested[k], j)]]
  ELSE <<>>

RECURSIVE ServedUpTo(_)
ServedUpTo(k) == IF k = 0 THEN <<>> ELSE ServedUpTo(k - 1) \o ServedRecords(k)

\* C4: a page whose fetch or decode failed is skipped and nothing more: the
\* call never ends by an exception, every page of the range is still
\* requested, and the returned table holds the records of every page that
\* succeeded, before and after the failing one.
C4_FailureLocality ==
  /\ sp_pc # "raised"
  /\ sp_pc = "returned" =>
       /\ requested = Ascending(min_page, max_page)
       /\ df = ServedUpTo(Len(payloads))

\* C5: at most one page fetch is in flight, and the accumulated records are
\* in page order with the records of one page in their order on the page
\* (ranks strictly ascending, pages never descending), whichever pages
\* failed or were empty.
C5_PageOrder ==
  /\ in_flight <= 1
  /\ \A i, j \in DOMAIN all_rankings :
       i < j => /\ all_rankings[i].rank < all_rankings[j].rank
                /\ PageOfRank(all_rankings[i].rank) <= PageOfRank(all_rankings[j].rank)

\* three pages requested, the middle one failed, records of the first and the last collected
C5_Witness ==
  /\ Len(payloads) = 3
  /\ payloads[1].kind = "users" /\ payloads[1].n = 2
  /\ payloads[2].kind = "not_json"
  /\ payloads[3].kind = "users" /\ payloads[3].n = 2
  /\ Len(all_rankings) = 4

\* C6: the pages are requested in ascending order from min_page, and once
\* the loop is over (min_page <= max_page) every page up to max_page has been
\* requested: no empty or failing page ends the loop early.
C6_FullRange ==
  /\ requested = Ascending(min_page, min_page + Len(requested) - 1)
  /\ (min_page <= max_page /\ sp_pc \in {"returned", "raised"}) =>
       requested = Ascending(min_page, max_page)

(***************************************************************************)
(* Properties of process_csv_file (SpecBulk).                              *)
(***************************************************************************)
InputColumns == {"user_slug", "username", "rank"}

\* input rows among the first n that carry a user_slug, in input order
RECURSIVE KeyedRows(_)
KeyedRows(n) ==
  IF n = 0 THEN <<>>
  ELSE IF strip(rows[n].user_slug) # "" THEN Append(KeyedRows(n - 1), n)
       ELSE KeyedRows(n - 1)

Unfetched(k) == b_resps[k] \in {"matched_null", "request_exception"}

\* C3: whatever goes wrong with one key (transport error, HTTP error, a
\* payload of an unexpected shape) stays inside that key: the run is never
\* aborted, every key fetched so far has its row in the accumulator, and a run
\* that fetched keys ends with an output holding all of them.
C3_ErrorIsolation ==
  /\ b_pc # "aborted"
  /\ Len(all_user_data) = Len(b_resps)
  /\ b_pc = "done" => Len(out_file) = Len(b_resps)

Keys(rec) == Pick(InsertionOrder, DOMAIN rec)

\* field names of the records data[1..n] in order of first occurrence
RECURSIVE FirstSeen(_, _)
FirstSeen(data, n) ==
  IF n = 0 THEN <<>>
  ELSE LET before == FirstSeen(data, n - 1)
       IN  before \o Pick(Keys(data[n]), DOMAIN data[n] \ Range(before))

Position(s, x) == CHOOSE i \in DOMAIN s : s[i] = x

Written == b_pc = "done" /\ all_user_data # <<>>

\* C11 as stated: the written column list is the union of the field names
\* of the merged records in order of first occurrence.
C11_FirstOccurrenceOrder ==
  Written => out_header = FirstSeen(all_user_data, Len(all_user_data))

\* C11 amended: the written column list holds every field name seen in the
\* merged records, each once and no other, in ascending order of the names
\* (not in order of first occurrence).
C11_SortedUnion ==
  Written =>
    /\ Range(out_header) = UNION {DOMAIN all_user_data[k] : k \in DOMAIN all_user_data}
    /\ \A i, j \in DOMAIN out_header :
         i < j => Position(AlphaOrder, out_header[i]) < Position(AlphaOrder, out_header[j])
    /\ \A k \in DOMAIN out_file : DOMAIN out_file[k] = Range(out_header)

\* a table written from an unfetched row followed by a fetched one: five
\* columns, "rank" first although "user_slug" was seen first
C11_Witness ==
  /\ Written
  /\ b_resps = <<"matched_null", "found">>
  /\ Len(out_header) = 5
  /\ out_header[1] = "rank"
  /\ FirstSeen(all_user_data, Len(all_user_data))[1] = "user_slug"

(***************************************************************************)
(* Reversed page range (SpecPages).                                        *)
(***************************************************************************)
CallOver == sp_pc \in {"returned", "raised"}

\* C12 as stated: a call with min_page > max_page ends as an error, before
\* any page fetch is issued.
C12_ConfigRejected ==
  (min_page > max_page /\ CallOver) =>
     sp_pc = "raised" /\ requested = <<>>

\* C12 amended: a call with min_page > max_page is not rejected; it issues
\* no page fetch at all and returns normally with an empty table.
C12_EmptyRangeReturnsEmpty ==
  min_page > max_page =>
     /\ requested = <<>> /\ payloads = <<>> /\ in_flight = 0
     /\ sp_pc \in {"loop", "returned"}
     /\ sp_pc = "returned" => df = <<>>

\* scrape_pages(3, 1) has returned
C12_Witness ==
  /\ min_page = 3 /\ max_page = 1
  /\ sp_pc = "returned"
  /\ requested = <<>> /\ df = <<>>

(***************************************************************************)
(* Rows, order, writers and reported figure of process_csv (SpecPool).     *)
(***************************************************************************)
OutputColumns == {"user_slug", "username", "school"}

FoundRow(slug) == fetch_user(slug, "found")

\* C13: every result is a full-width row of the three output columns that
\* holds its key; a key that is not found gets the row with the empty
\* placeholder in username and school, and so does any key whose row is not
\* the found row; the written table has one such row per key, N rows for N
\* keys.
C13_PlaceholderRows ==
  /\ \A i \in DOMAIN user_slugs :
       fstate[i] = "FINISHED" =>
         /\ DOMAIN fresult[i] = OutputColumns
         /\ fresult[i] \in {FoundRow(user_slugs[i]), EmptyRow(user_slugs[i])}
         /\ user_slugs[i] \notin Registered => fresult[i] = EmptyRow(user_slugs[i])
  /\ \A k \in DOMAIN results : DOMAIN results[k] = OutputColumns
  /\ pc = "end" =>
       /\ Len(output) = Len(user_slugs)
       /\ \A k \in DOMAIN output :
            /\ DOMAIN output[k] = OutputColumns
            /\ output[k].username = "" => output[k] = EmptyRow(output[k].user_slug)

\* three keys written as three rows: one found, one not found, one failed
C13_Witness ==
  /\ pc = "end"
  /\ Len(user_slugs) = 3 /\ Len(output) = 3
  /\ FoundRow("a") \in Range(output)
  /\ EmptyRow("b") \in Range(output)
  /\ EmptyRow("a") \in Range(output)

\* C14 as stated: the i-th row of the result list belongs to the i-th input
\* key.
C14_InputOrderAligned ==
  Collected => \A k \in DOMAIN results : results[k].user_slug = user_slugs[k]

\* C14 amended: the result list is in completion order: every iteration of
\* the loop puts the row of the future as_completed has just handed out at
\* the end of the list, and the list is written as it stands.
C14_CompletionOrder ==
  [][/\ (pc = "collect" /\ results' # results) =>
          \E i \in DOMAIN user_slugs \ yielded :
             /\ fstate[i] = "FINISHED"
             /\ yielded' = yielded \cup {i}
             /\ results' = Append(results, fresult[i])
     /\ (pc = "write" /\ pc' = "end") => output' = results
    ]_vars

\* keys a, b written in the order b, a
C14_Witness ==
  /\ pc = "end"
  /\ user_slugs = <<"a", "b">>
  /\ output[1].user_slug = "b" /\ output[2].user_slug = "a"

\* C15: while the futures run, the accumulator is written only in a step of
\* the coordinating thread, and such a step touches no future; a step of a
\* worker leaves the accumulator and the keys alone and changes the state and
\* the result of one future only, never a result that is already finished.
C15_SingleWriter ==
  [][pc = "collect" =>
       /\ user_slugs' = user_slugs
       /\ results' # results => fstate' = fstate /\ fresult' = fresult
       /\ (fstate' # fstate \/ fresult' # fresult) =>
            /\ results' = results /\ yielded' = yielded
            /\ \E i \in DOMAIN user_slugs :
                 \A j \in DOMAIN user_slugs \ {i} :
                    fstate'[j] = fstate[j] /\ fresult'[j] = fresult[j]
       /\ \A i \in DOMAIN user_slugs :
            fstate[i] = "FINISHED" =>
               fstate'[i] = "FINISHED" /\ fresult'[i] = fresult[i]
    ]_vars

\* one row collected, another worker finished with a different row, a third still running
C15_Witness ==
  /\ pc = "collect"
  /\ Len(results) = 1
  /\ \E i, j, k \in DOMAIN user_slugs :
       /\ i \in yielded /\ fstate[j] = "FINISHED" /\ j \notin yielded
       /\ fresult[i] # fresult[j]
       /\ fstate[k] = "RUNNING"

FoundCount == Cardinality({k \in DOMAIN results : results[k] = FoundRow(results[k].user_slug)})

C17_LinearBackoff ==
  \A k \in DOMAIN rq_slept : rq_slept[k] = backoff_factor * k

\* C17 amended: there is no wait before the first retry, and the wait
\* before the retry that follows the k-th failed attempt, k >= 2, is
\* backoff_factor * 2^(k-1): the waits double (0, 2, 4 for the three
\* retries a request has), they do not grow linearly.
C17_ExponentialBackoff ==
  /\ Len(rq_slept) <= RetryTotal
  /\ \A k \in DOMAIN rq_slept :
       /\ k = 1 => rq_slept[k] = 0
       /\ k >= 2 => rq_slept[k] = backoff_factor * Pow2(k - 1)
       /\ k >= 3 => rq_slept[k] = 2 * rq_slept[k - 1]

\* a request that used its three retries has waited 0, 2 and 4
C17_Witness ==
  /\ Len(rq_hist) = max_attempts
  /\ rq_slept = <<0, 2, 4>>

(***************************************************************************)
(* Merge precedence in process_csv_file (SpecBulk).                        *)
(***************************************************************************)
FetchedFields == {"username", "school_college", "total_badges"}

\* C18: the row kept for an input row whose fetch succeeded holds the
\* fetched value in every field the fetched record defines (username of the
\* input is overridden) and the input value in every other input column; the
\* row kept for an input row whose fetch failed is the input row unchanged;
\* the written rows hold the same values.
C18_MergePrecedence ==
  /\ \A k \in DOMAIN all_user_data :
       LET row  == rows[row_of[k]]
           slug == strip(row.user_slug)
       IN  /\ b_resps[k] = "found" =>
                /\ DOMAIN all_user_data[k] = DOMAIN row \cup FetchedFields
                /\ all_user_data[k].username = ServerUser(slug).username
                /\ all_user_data[k].school_college = ServerUser(slug).school
                /\ all_user_data[k].total_badges = "0"
                /\ \A c \in DOMAIN row \ FetchedFields :
                     all_user_data[k][c] = row[c]
           /\ b_resps[k] # "found" => all_user_data[k] = row
  /\ b_pc = "done" =>
       \A k \in DOMAIN out_file :
          \A c \in DOMAIN all_user_data[k] : out_file[k][c] = all_user_data[k][c]

\* a fetched row written with the fetched username over the one of the
\* input and with its own slug and rank, next to a row whose fetch failed
C18_Witness ==
  /\ b_pc = "done"
  /\ Len(rows) = 2 /\ Len(out_file) = 2
  /\ b_resps = <<"found", "request_exception">>
  /\ rows[1].user_slug = " a" /\ rows[1].username = "old"
  /\ out_file[1].username = "Alice"
  /\ out_file[1].user_slug = " a" /\ out_file[1].rank = 1
  /\ out_file[2].username = "old"

====
